---- MODULE Spec2Model ----
(***************************************************************************)
(* wdctl(8) - show hardware watchdog status (sys-utils/wdctl.c).           *)
(*                                                                         *)
(* The program is modelled as one sequential process: the getopt loop of   *)
(* main (one action per switch case), the checks after the loop, the       *)
(* device session of read_watchdog (one action per system call) and the    *)
(* rendering tail of main (one action, show_timeouts and show_flags        *)
(* included).  The watchdog driver is the environment: the result of each  *)
(* system call is chosen nondeterministically.                             *)
(*                                                                         *)
(* Not modelled: allocation failures inside the tt table library           *)
(* (tt_new_table, tt_define_column, tt_add_line are taken to succeed).     *)
(***************************************************************************)
EXTENDS Integers, Sequences, FiniteSets, TLC

(* ------------------------------ bounds -------------------------------- *)

\* longest command line (number of argv words after argv[0])
MaxArgs == 3

(* ---------------------- <linux/watchdog.h> bits ----------------------- *)

\* A uint32_t bit mask is the set of the positions (0..31) of its 1 bits:
\* 0x8000 is {15}, 0 is {}.
Bits32 == 0..31

WDIOF_OVERHEAT == {0}
WDIOF_FANFAULT == {1}
WDIOF_EXTERN1 == {2}
WDIOF_EXTERN2 == {3}
WDIOF_POWERUNDER == {4}
WDIOF_CARDRESET == {5}
WDIOF_POWEROVER == {6}
WDIOF_SETTIMEOUT == {7}
WDIOF_MAGICCLOSE == {8}
WDIOF_PRETIMEOUT == {9}
\* a capability bit of the kernel interface that wdflags[] does not list
WDIOF_ALARMONLY == {10}
WDIOF_KEEPALIVEPING == {15}

EXIT_SUCCESS == 0
EXIT_FAILURE == 1

(* --------------------------- bit operations --------------------------- *)

\* a & b
BitAnd(a, b) == a \cap b

\* a | b
BitOr(a, b) == a \cup b

\* ~x on a uint32_t
BitNot32(x) == Bits32 \ x

(* ---------------------------- static tables --------------------------- *)

wdflags ==
    << [flag |-> WDIOF_CARDRESET,     name |-> "CARDRESET",     description |-> "Card previously reset the CPU"],
       [flag |-> WDIOF_EXTERN1,       name |-> "EXTERN1",       description |-> "External relay 1"],
       [flag |-> WDIOF_EXTERN2,       name |-> "EXTERN2",       description |-> "External relay 2"],
       [flag |-> WDIOF_FANFAULT,      name |-> "FANFAULT",      description |-> "Fan failed"],
       [flag |-> WDIOF_KEEPALIVEPING, name |-> "KEEPALIVEPING", description |-> "Keep alive ping reply"],
       [flag |-> WDIOF_MAGICCLOSE,    name |-> "MAGICCLOSE",    description |-> "Supports magic close char"],
       [flag |-> WDIOF_OVERHEAT,      name |-> "OVERHEAT",      description |-> "Reset due to CPU overheat"],
       [flag |-> WDIOF_POWEROVER,     name |-> "POWEROVER",     description |-> "Power over voltage"],
       [flag |-> WDIOF_POWERUNDER,    name |-> "POWERUNDER",    description |-> "Power bad/power fault"],
       [flag |-> WDIOF_PRETIMEOUT,    name |-> "PRETIMEOUT",    description |-> "Pretimeout (in seconds)"],
       [flag |-> WDIOF_SETTIMEOUT,    name |-> "SETTIMEOUT",    description |-> "Set timeout (in seconds)"] >>

\* enum { COL_FLAG, COL_DESC, COL_STATUS, COL_BSTATUS }
COL_FLAG == 0
COL_DESC == 1
COL_STATUS == 2
COL_BSTATUS == 3

\* infos[], indexed by column id + 1
infos == << [name |-> "FLAG"], [name |-> "DESCRIPTION"],
            [name |-> "STATUS"], [name |-> "BOOT-STATUS"] >>

NCOLS == Len(infos)

_PATH_WATCHDOG_DEV == "/dev/watchdog"

(* ----------------------------- name lookup ---------------------------- *)

\* case folding of strncasecmp, over the names that occur on the modelled
\* command lines (every other name in use is already upper case)
ToUpper(s) ==
    CASE s = "status"     -> "STATUS"
      [] s = "pretimeout" -> "PRETIMEOUT"
      [] OTHER            -> s

\* !strncasecmp(name, cn, namesz) && !*(cn + namesz): name and cn have the
\* same length and are equal up to case
NameMatches(name, cn) == ToUpper(name) = ToUpper(cn)

\* name2bit: rc = 0 and the flag bit of the first table entry that matches,
\* else rc = -1 (and the warning "unknown flag")
name2bit(name) ==
    LET hits == { i \in 1..Len(wdflags) : NameMatches(name, wdflags[i].name) }
    IN  IF hits = {} THEN [rc |-> -1, flag |-> {}]
        ELSE [rc |-> 0, flag |-> wdflags[CHOOSE i \in hits : \A j \in hits : i <= j].flag]

\* column2id: the index of the first column that matches, else -1
\* (and the warning "unknown column")
column2id(name) ==
    LET hits == { i \in 1..NCOLS : NameMatches(name, infos[i].name) }
    IN  IF hits = {} THEN -1
        ELSE (CHOOSE i \in hits : \A j \in hits : i <= j) - 1

(* ------------- list parsers of lib/strutils.c (not in src/) ----------- *)

\* string_to_idarray(list, ary, arysz, name2id): the ids of the names of
\* the list in order; negative when the list is empty, a name is unknown,
\* a column is named twice or the list does not fit the array
string_to_idarray(list, arysz) ==
    LET ids == [ i \in 1..Len(list) |-> column2id(list[i]) ]
    IN  IF \/ Len(list) = 0
           \/ Len(list) > arysz
           \/ \E i \in 1..Len(list) : ids[i] = -1
           \/ \E i, j \in 1..Len(list) : i # j /\ ids[i] = ids[j]
        THEN [n |-> -1, ary |-> << >>]
        ELSE [n |-> Len(list), ary |-> ids]

\* string_to_bitmask(list, mask, name2flag): ORs the bit of every name of
\* the list into the mask; non-zero when a name is unknown
RECURSIVE string_to_bitmask(_, _)
string_to_bitmask(list, mask) ==
    IF list = << >> THEN [rc |-> 0, mask |-> mask]
    ELSE LET flag == name2bit(Head(list))
         IN  IF flag.rc < 0 THEN [rc |-> flag.rc, mask |-> mask]
             ELSE string_to_bitmask(Tail(list), BitOr(mask, flag.flag))

(* --------------------------- modelled inputs -------------------------- *)

\* argv words: an option with its argument (a list is already split at
\* the commas), "?" an option getopt does not know, "arg" a non-option
Words ==
    { [opt |-> "d", arg |-> <<"/dev/watchdog1">>],
      [opt |-> "o", arg |-> <<"status", "FLAG">>],
      [opt |-> "o", arg |-> <<"FLAG", "FLAG">>],
      [opt |-> "o", arg |-> <<"FLAG", "BOGUS">>],
      [opt |-> "f", arg |-> <<"pretimeout", "MAGICCLOSE">>],
      [opt |-> "f", arg |-> <<"KEEPALIVEPING">>],
      [opt |-> "f", arg |-> <<"NOSUCH">>],
      [opt |-> "V", arg |-> << >>],
      [opt |-> "h", arg |-> << >>],
      [opt |-> "F", arg |-> << >>],
      [opt |-> "I", arg |-> << >>],
      [opt |-> "T", arg |-> << >>],
      [opt |-> "n", arg |-> << >>],
      [opt |-> "r", arg |-> << >>],
      [opt |-> "P", arg |-> << >>],
      [opt |-> "?", arg |-> << >>],
      [opt |-> "arg", arg |-> <<"extra">>] }

CommandLines == UNION { [1..n -> Words] : n \in 0..MaxArgs }

\* what WDIOC_GETSUPPORT can fill in: the example of the documentation,
\* a driver with a capability wdflags[] does not know, a driver with every
\* known capability and unknown bits among them
Idents ==
    { [options |-> WDIOF_KEEPALIVEPING \cup WDIOF_MAGICCLOSE,
       firmware_version |-> 18, identity |-> "WD1"],
      [options |-> WDIOF_ALARMONLY \cup WDIOF_PRETIMEOUT \cup WDIOF_SETTIMEOUT,
       firmware_version |-> 0, identity |-> "WD2"],
      [options |-> (0..15) \cup {31},
       firmware_version |-> 1, identity |-> "WD3"] }

\* what WDIOC_GETSTATUS and WDIOC_GETBOOTSTATUS can store
StatusValues == { WDIOF_KEEPALIVEPING }
BootStatusValues == { WDIOF_CARDRESET }

\* what the three timing queries can store when they succeed
TimeValues == { 0, 30 }

\* results of a system call that can fail
IoResults == { "ok", "fail" }

(* -------------------------------- state ------------------------------- *)

VARIABLES
    args,        \* argv[optind..argc-1]: the words getopt has not scanned
    positional,  \* getopt has skipped a non-option (optind < argc at the end)
    usage,       \* history: the usage errors the command line contains
    seen,        \* history: the kinds of words the command line contains
    pc,          \* the statement the process is at
    exitat,      \* the statement that ended the process
    exitcode,    \* the exit status (-1 while running)
    wd,          \* struct wdinfo
    columns,     \* columns[0..ncolumns-1]
    ncolumns,
    noflags, noident, notimeouts,
    tt_flags,    \* the TT_FL_* bits, as a set
    wanted,      \* uint32_t wanted
    rc,
    fd,          \* "none", "open", "closed"
    sigmask,     \* "orig": the mask at start, "blocked": all signals blocked
    ioctls,      \* history: request -> "none" (not issued), "ok", "fail"
    wres,        \* result of the last disarm write: "none", "ok", "eintr", "err"
    interrupted, \* history: a disarm write has failed with EINTR
    out,         \* the lines printed on stdout, in order
    tt,          \* the table show_flags has printed
    errs         \* the messages printed on stderr, in order

session == << wd, rc, fd, sigmask, ioctls, wres, interrupted >>
options == << columns, ncolumns, noflags, noident, notimeouts, tt_flags, wanted >>
output  == << out, tt, errs >>
cmdline == << args, positional, usage, seen >>
vars    == << cmdline, pc, exitat, exitcode, session, options, output >>

Requests == { "WDIOC_GETSUPPORT", "WDIOC_GETSTATUS", "WDIOC_GETBOOTSTATUS",
              "WDIOC_GETTIMEOUT", "WDIOC_GETPRETIMEOUT", "WDIOC_GETTIMELEFT" }

\* a line of stdout or a message of stderr: its text, the device it names
\* ("" when it names none), the number and the bit mask it prints
Msg(m, d, v) == [msg |-> m, dev |-> d, val |-> v, mask |-> {}]

NoTable == [printed |-> FALSE, flags |-> {}, header |-> << >>, rows |-> << >>]

(* ------------------ usage errors of a command line -------------------- *)

IsOpt(w) == w.opt # "arg"

UsageErrors(cl) ==
    { k \in { "option", "column", "flag", "positional", "conflict" } :
        \/ k = "option" /\ \E i \in 1..Len(cl) : cl[i].opt = "?"
        \/ k = "column" /\ \E i \in 1..Len(cl) :
                               /\ cl[i].opt = "o"
                               /\ string_to_idarray(cl[i].arg, NCOLS).n < 0
        \/ k = "flag" /\ \E i \in 1..Len(cl) :
                               /\ cl[i].opt = "f"
                               /\ \E j \in 1..Len(cl[i].arg) : name2bit(cl[i].arg[j]).rc = -1
        \/ k = "positional" /\ \E i \in 1..Len(cl) : cl[i].opt = "arg"
        \/ k = "conflict" /\ \E i, j \in 1..Len(cl) : cl[i].opt = "f" /\ cl[j].opt = "F" }

(* ------------------------------- Init --------------------------------- *)

\* main, lines 328-332, and the static int columns[NCOLS], ncolumns
Init ==
    /\ args \in CommandLines
    /\ positional = FALSE
    /\ usage = UsageErrors(args)
    /\ seen = { args[i].opt : i \in 1..Len(args) }
    /\ pc = "getopt"
    /\ exitat = "none"
    /\ exitcode = -1
    /\ wd = [device |-> _PATH_WATCHDOG_DEV,
             timeout |-> 0, timeleft |-> 0, pretimeout |-> 0,
             status |-> {}, bstatus |-> {},
             ident |-> [options |-> {}, firmware_version |-> 0, identity |-> ""],
             has_timeout |-> FALSE, has_timeleft |-> FALSE, has_pretimeout |-> FALSE]
    /\ columns = << >>
    /\ ncolumns = 0
    /\ noflags = FALSE /\ noident = FALSE /\ notimeouts = FALSE
    /\ tt_flags = {}
    /\ wanted = {}
    /\ rc = 0
    /\ fd = "none"
    /\ sigmask = "orig"
    /\ ioctls = [r \in Requests |-> "none"]
    /\ wres = "none"
    /\ interrupted = FALSE
    /\ out = << >>
    /\ tt = NoTable
    /\ errs = << >>

(* ------------------------------ getopt -------------------------------- *)

\* GNU getopt_long permutes argv: non-options are stepped over and left
\* for the end, where optind points at the first of them
RECURSIVE SkipNonOptions(_)
SkipNonOptions(a) ==
    IF a # << >> /\ ~IsOpt(Head(a)) THEN SkipNonOptions(Tail(a)) ELSE a

\* getopt_long returns c: the next option word is consumed
Getopt(c) ==
    LET a == SkipNonOptions(args)
    IN  /\ pc = "getopt"
        /\ a # << >>
        /\ Head(a).opt = c
        /\ args' = Tail(a)
        /\ positional' = (positional \/ Len(a) < Len(args))
        /\ UNCHANGED << usage, seen >>

optarg == Head(SkipNonOptions(args)).arg

\* exit(), err(), errx() or a return from main
Exit(where, code) ==
    /\ pc' = "exit"
    /\ exitat' = where
    /\ exitcode' = code

\* usage(out): the help text, then exit
usage_exit(stream, where) ==
    /\ IF stream = "stderr"
       THEN errs' = Append(errs, Msg("usage", "", 0)) /\ out' = out
       ELSE out' = Append(out, Msg("usage", "", 0)) /\ errs' = errs
    /\ Exit(where, IF stream = "stderr" THEN EXIT_FAILURE ELSE EXIT_SUCCESS)

\* case 'd'
OptDevice ==
    /\ Getopt("d")
    /\ wd' = [wd EXCEPT !.device = optarg[1]]
    /\ UNCHANGED << pc, exitat, exitcode, rc, fd, sigmask, ioctls, wres, interrupted, options, output >>

\* case 'o'
OptOutput ==
    /\ Getopt("o")
    /\ LET r == string_to_idarray(optarg, NCOLS)
       IN  /\ ncolumns' = r.n
           /\ columns' = r.ary
           /\ errs' = IF \E i \in 1..Len(optarg) : column2id(optarg[i]) = -1
                      THEN Append(errs, Msg("unknown column", "", 0)) ELSE errs
           /\ IF r.n < 0
              THEN Exit("o:return", EXIT_FAILURE)
              ELSE UNCHANGED << pc, exitat, exitcode >>
    /\ UNCHANGED << session, noflags, noident, notimeouts, tt_flags, wanted, out, tt >>

\* case 'f'.  string_to_bitmask stores the mask through
\* (unsigned long *) &wanted; wanted is a uint32_t and holds the low 32
\* bits of what is stored (as on 32-bit and on little-endian targets).
OptFlags ==
    /\ Getopt("f")
    /\ LET r == string_to_bitmask(optarg, wanted)
       IN  /\ wanted' = BitAnd(r.mask, Bits32)
           /\ IF r.rc # 0
              THEN /\ errs' = Append(errs, Msg("unknown flag", "", 0))
                   /\ Exit("f:return", EXIT_FAILURE)
              ELSE UNCHANGED << pc, exitat, exitcode, errs >>
    /\ UNCHANGED << session, columns, ncolumns, noflags, noident, notimeouts, tt_flags, out, tt >>

\* case 'V'
OptVersion ==
    /\ Getopt("V")
    /\ out' = Append(out, Msg("version", "", 0))
    /\ Exit("V:return", EXIT_SUCCESS)
    /\ UNCHANGED << session, options, tt, errs >>

\* case 'h'
OptHelp ==
    /\ Getopt("h")
    /\ usage_exit("stdout", "h:usage")
    /\ UNCHANGED << session, options, tt >>

\* case 'F'
OptNoflags ==
    /\ Getopt("F")
    /\ noflags' = TRUE
    /\ UNCHANGED << pc, exitat, exitcode, session, columns, ncolumns, noident, notimeouts,
                    tt_flags, wanted, output >>

\* case 'I'
OptNoident ==
    /\ Getopt("I")
    /\ noident' = TRUE
    /\ UNCHANGED << pc, exitat, exitcode, session, columns, ncolumns, noflags, notimeouts,
                    tt_flags, wanted, output >>

\* case 'T'
OptNotimeouts ==
    /\ Getopt("T")
    /\ notimeouts' = TRUE
    /\ UNCHANGED << pc, exitat, exitcode, session, columns, ncolumns, noflags, noident,
                    tt_flags, wanted, output >>

\* case 'n'
OptNoheadings ==
    /\ Getopt("n")
    /\ tt_flags' = tt_flags \cup { "TT_FL_NOHEADINGS" }
    /\ UNCHANGED << pc, exitat, exitcode, session, columns, ncolumns, noflags, noident,
                    notimeouts, wanted, output >>

\* case 'r'
OptRaw ==
    /\ Getopt("r")
    /\ tt_flags' = tt_flags \cup { "TT_FL_RAW" }
    /\ UNCHANGED << pc, exitat, exitcode, session, columns, ncolumns, noflags, noident,
                    notimeouts, wanted, output >>

\* case 'P'
OptPairs ==
    /\ Getopt("P")
    /\ tt_flags' = tt_flags \cup { "TT_FL_EXPORT" }
    /\ UNCHANGED << pc, exitat, exitcode, session, columns, ncolumns, noflags, noident,
                    notimeouts, wanted, output >>

\* case '?' and default
OptUnknown ==
    /\ Getopt("?")
    /\ usage_exit("stderr", "?:usage")
    /\ UNCHANGED << session, options, tt >>

\* mutant of FlagsConflict: the test of wanted is negated
FlagsConflictNegated(w, nf) == w = {} /\ nf

\* if (wanted && noflags)
FlagsConflict(w, nf) == w # {} /\ nf

\* mutant of DefaultColumns: the default columns are not filled in
DefaultColumnsMissing(cols, n) == << cols, n >>

\* if (!ncolumns) { default columns }: the value of << columns, ncolumns >>
DefaultColumns(cols, n) ==
    IF n = 0
    THEN << << COL_FLAG, COL_DESC, COL_STATUS, COL_BSTATUS >>, 4 >>
    ELSE << cols, n >>

\* getopt_long returns -1; main, lines 401-413
EndOfOptions ==
    /\ pc = "getopt"
    /\ SkipNonOptions(args) = << >>
    /\ args' = << >>
    /\ positional' = (positional \/ args # << >>)
    /\ UNCHANGED << usage, seen >>
    /\ IF FlagsConflict(wanted, noflags)
       THEN /\ errs' = Append(errs, Msg("--flags and --noflags are mutually exclusive", "", 0))
            /\ Exit("conflict:errx", EXIT_FAILURE)
            /\ UNCHANGED << columns, ncolumns, out >>
       ELSE /\ columns' = DefaultColumns(columns, ncolumns)[1]
            /\ ncolumns' = DefaultColumns(columns, ncolumns)[2]
            /\ IF positional'
               THEN usage_exit("stderr", "positional:usage")
               ELSE /\ pc' = "read_watchdog"
                    /\ UNCHANGED << exitat, exitcode, out, errs >>
    /\ UNCHANGED << session, noflags, noident, notimeouts, tt_flags, wanted, tt >>

(* --------------------------- read_watchdog ---------------------------- *)

\* mutant of BlockAll: the set handed to SIG_BLOCK is empty
BlockNone(mask) == mask

\* the mask after sigfillset(&sigs); sigprocmask(SIG_BLOCK, &sigs, &oldsigs)
BlockAll(mask) == "blocked"

\* sigemptyset, sigfillset, sigprocmask(SIG_BLOCK, &sigs, &oldsigs)
BlockSignals ==
    /\ pc = "read_watchdog"
    /\ sigmask' = BlockAll(sigmask)
    /\ pc' = "open"
    /\ UNCHANGED << cmdline, exitat, exitcode, wd, rc, fd, ioctls, wres, interrupted, options, output >>

\* fd = open(wd->device, O_WRONLY|O_CLOEXEC) and the if (fd < 0) block
Open ==
    /\ pc = "open"
    /\ \E e \in { "ok", "EBUSY", "ENOENT" } :
         CASE e = "ok" ->
                /\ fd' = "open"
                /\ pc' = "WDIOC_GETSUPPORT"
                /\ UNCHANGED << exitat, exitcode, errs >>
           [] e = "EBUSY" ->
                /\ errs' = Append(errs, Msg("watchdog already in use, terminating.", wd.device, 0))
                /\ Exit("open:errx", EXIT_FAILURE)
                /\ fd' = fd
           [] OTHER ->
                /\ errs' = Append(errs, Msg("failed to open watchdog device", wd.device, 0))
                /\ Exit("open:err", EXIT_FAILURE)
                /\ fd' = fd
    /\ UNCHANGED << cmdline, wd, rc, sigmask, ioctls, wres, interrupted, options, out, tt >>

\* ioctl(fd, req, ...) is issued and ends with result r
Ioctl(req, r) ==
    /\ pc = req
    /\ ioctls' = [ioctls EXCEPT ![req] = r]
    /\ UNCHANGED << cmdline, exitat, exitcode, rc, fd, sigmask, wres, interrupted, options, out, tt >>

\* mutant of AfterGetSupport: a failed capability query leaves the session
\* without the disarm write
AfterGetSupportSkipDisarm(r) == IF r = "ok" THEN "WDIOC_GETSTATUS" ELSE "close"

\* where read_watchdog goes after WDIOC_GETSUPPORT has ended with result
\* r: into the else block, or on to the disarm loop
AfterGetSupport(r) == IF r = "ok" THEN "WDIOC_GETSTATUS" ELSE "write"

\* if (ioctl(fd, WDIOC_GETSUPPORT, &wd->ident) < 0) warn(...); else { ... }
GetSupport ==
    \E r \in IoResults :
        /\ Ioctl("WDIOC_GETSUPPORT", r)
        /\ IF r = "ok"
           THEN /\ \E id \in Idents : wd' = [wd EXCEPT !.ident = id]
                /\ errs' = errs
           ELSE /\ wd' = wd
                /\ errs' = Append(errs, Msg("failed to get information about watchdog", wd.device, 0))
        /\ pc' = AfterGetSupport(r)

\* ioctl(fd, WDIOC_GETSTATUS, &wd->status): the result is not looked at
GetStatus ==
    \E r \in IoResults :
        /\ Ioctl("WDIOC_GETSTATUS", r)
        /\ IF r = "ok"
           THEN \E v \in StatusValues : wd' = [wd EXCEPT !.status = v]
           ELSE wd' = wd
        /\ errs' = errs
        /\ pc' = "WDIOC_GETBOOTSTATUS"

\* ioctl(fd, WDIOC_GETBOOTSTATUS, &wd->bstatus): the result is not looked at
GetBootStatus ==
    \E r \in IoResults :
        /\ Ioctl("WDIOC_GETBOOTSTATUS", r)
        /\ IF r = "ok"
           THEN \E v \in BootStatusValues : wd' = [wd EXCEPT !.bstatus = v]
           ELSE wd' = wd
        /\ errs' = errs
        /\ pc' = "WDIOC_GETTIMEOUT"

\* if (ioctl(fd, WDIOC_GETTIMEOUT, &wd->timeout) >= 0) wd->has_timeout = 1
GetTimeout ==
    \E r \in IoResults :
        /\ Ioctl("WDIOC_GETTIMEOUT", r)
        /\ IF r = "ok"
           THEN \E v \in TimeValues :
                    wd' = [wd EXCEPT !.timeout = v, !.has_timeout = TRUE]
           ELSE wd' = wd
        /\ errs' = errs
        /\ pc' = "WDIOC_GETPRETIMEOUT"

\* if (ioctl(fd, WDIOC_GETPRETIMEOUT, &wd->pretimeout) >= 0) wd->has_pretimeout = 1
GetPretimeout ==
    \E r \in IoResults :
        /\ Ioctl("WDIOC_GETPRETIMEOUT", r)
        /\ IF r = "ok"
           THEN \E v \in TimeValues :
                    wd' = [wd EXCEPT !.pretimeout = v, !.has_pretimeout = TRUE]
           ELSE wd' = wd
        /\ errs' = errs
        /\ pc' = "WDIOC_GETTIMELEFT"

\* if (ioctl(fd, WDIOC_GETTIMELEFT, &wd->timeleft) >= 0) wd->has_timeleft = 1
GetTimeleft ==
    \E r \in IoResults :
        /\ Ioctl("WDIOC_GETTIMELEFT", r)
        /\ IF r = "ok"
           THEN \E v \in TimeValues :
                    wd' = [wd EXCEPT !.timeleft = v, !.has_timeleft = TRUE]
           ELSE wd' = wd
        /\ errs' = errs
        /\ pc' = "write"

\* mutant of AfterWrite: every failed write is tried again
AfterWriteRetryAnyError(r) == IF r = "ok" THEN "close" ELSE "write"

\* where the for (;;) loop goes after write() has ended with result r:
\* break on success, break (after the warning) on an error other than
\* EINTR, another turn on EINTR
AfterWrite(r) == IF r = "eintr" THEN "write" ELSE "close"

\* one turn of the for (;;) loop: write(fd, &v, 1)
Disarm ==
    /\ pc = "write"
    /\ \E r \in { "ok", "eintr", "err" } :
        /\ wres' = r
        /\ interrupted' = (interrupted \/ r = "eintr")
        /\ errs' = IF r = "err"
                   THEN Append(errs, Msg("failed to disarm watchdog", wd.device, 0))
                   ELSE errs
        /\ pc' = AfterWrite(r)
    /\ UNCHANGED << cmdline, exitat, exitcode, wd, rc, fd, sigmask, ioctls, options, out, tt >>

\* close(fd)
Close ==
    /\ pc = "close"
    /\ fd' = "closed"
    /\ pc' = "restore"
    /\ UNCHANGED << cmdline, exitat, exitcode, wd, rc, sigmask, ioctls, wres, interrupted, options, output >>

\* mutant of read_watchdog_result: a failed capability query fails the session
read_watchdog_result_fails == IF ioctls["WDIOC_GETSUPPORT"] = "fail" THEN -1 ELSE 0

\* the value read_watchdog returns
read_watchdog_result == 0

\* sigprocmask(SIG_SETMASK, &oldsigs, NULL); return 0; and rc = ... in main
RestoreSignals ==
    /\ pc = "restore"
    /\ sigmask' = "orig"
    /\ rc' = read_watchdog_result
    /\ pc' = "render"
    /\ UNCHANGED << cmdline, exitat, exitcode, wd, fd, ioctls, wres, interrupted, options, output >>

(* ------------------------------ rendering ----------------------------- *)

\* get_column_id(num), with its assertions
get_column_id(cols, n, num) ==
    IF num < n /\ cols[num + 1] < NCOLS THEN cols[num + 1] ELSE -1

\* mutant of show_timeouts: the pre-timeout line is printed without a look
\* at has_pretimeout
show_timeouts_always(w) ==
    (IF w.has_timeout THEN << Msg("Timeout:", "", w.timeout) >> ELSE << >>)
    \o << Msg("Pre-timeout:", "", w.pretimeout) >>
    \o (IF w.has_timeleft THEN << Msg("Timeleft:", "", w.timeleft) >> ELSE << >>)

\* show_timeouts: the lines it prints
show_timeouts(w) ==
    (IF w.has_timeout THEN << Msg("Timeout:", "", w.timeout) >> ELSE << >>)
    \o (IF w.has_pretimeout THEN << Msg("Pre-timeout:", "", w.pretimeout) >> ELSE << >>)
    \o (IF w.has_timeleft THEN << Msg("Timeleft:", "", w.timeleft) >> ELSE << >>)

\* add_flag_line: the line of flag fl (of: the table entry it was added
\* for), one cell for each selected column
add_flag_line(w, fl, cols, n) ==
    [of |-> fl.name,
     cells |-> [ i \in 1..n |->
        LET id == get_column_id(cols, n, i - 1)
        IN  CASE id = COL_FLAG    -> fl.name
              [] id = COL_DESC    -> fl.description
              [] id = COL_STATUS  -> IF BitAnd(w.status, fl.flag) # {} THEN "1" ELSE "0"
              [] id = COL_BSTATUS -> IF BitAnd(w.bstatus, fl.flag) # {} THEN "1" ELSE "0"
              [] OTHER            -> "" ]]

\* mutant of FlagLine: the filter is not looked at
FlagLineNoFilter(wnt, flags, fl) == BitAnd(flags, fl.flag) # {}

\* the test of the loop of show_flags: flag fl gets a line
\*   if (wanted && !(wanted & fl.flag)) ; else if (flags & fl.flag) add_flag_line
FlagLine(wnt, flags, fl) ==
    /\ ~(wnt # {} /\ BitAnd(wnt, fl.flag) = {})
    /\ BitAnd(flags, fl.flag) # {}

\* mutant of ConsumeFlag: the complement is missing (flags &= fl.flag)
ConsumeFlagNoComplement(flags, fl) == BitAnd(flags, fl.flag)

\* flags &= ~fl.flag
ConsumeFlag(flags, fl) == BitAnd(flags, BitNot32(fl.flag))

\* the loop of show_flags from entry i of wdflags on: the lines added and
\* the bits of flags that are left
RECURSIVE show_flags_loop(_, _, _, _, _, _, _)
show_flags_loop(i, flags, lines, w, wnt, cols, n) ==
    IF i > Len(wdflags) THEN [lines |-> lines, flags |-> flags]
    ELSE show_flags_loop(i + 1,
                         ConsumeFlag(flags, wdflags[i]),
                         IF FlagLine(wnt, flags, wdflags[i])
                         THEN Append(lines, add_flag_line(w, wdflags[i], cols, n))
                         ELSE lines,
                         w, wnt, cols, n)

\* show_flags: the table it prints and the unknown bits it warns about
show_flags(w, ttf, wnt, cols, n) ==
    LET r == show_flags_loop(1, w.ident.options, << >>, w, wnt, cols, n)
    IN  [table |-> [printed |-> TRUE,
                    flags |-> ttf,
                    header |-> [ i \in 1..n |-> infos[get_column_id(cols, n, i - 1) + 1].name ],
                    rows |-> r.lines],
         unknown |-> r.flags]

\* if (!noflags && !(noident && notimeouts)) fputc('\n', stdout)
Separator(nf, ni, nt) == ~nf /\ ~(ni /\ nt)

\* main, lines 416-431
Render ==
    /\ pc = "render"
    /\ IF rc # 0
       THEN UNCHANGED << out, tt, errs >>
       ELSE LET sf == show_flags(wd, tt_flags, wanted, columns, ncolumns)
            IN  /\ out' = out
                       \o (IF ~noident
                           THEN << Msg("Identity:", wd.ident.identity, wd.ident.firmware_version) >>
                           ELSE << >>)
                       \o (IF ~notimeouts THEN show_timeouts(wd) ELSE << >>)
                       \o (IF Separator(noflags, noident, notimeouts)
                           THEN << Msg("", "", 0) >> ELSE << >>)
                /\ tt' = IF ~noflags THEN sf.table ELSE tt
                /\ errs' = IF ~noflags /\ sf.unknown # {}
                           THEN Append(errs, [Msg("unknown flags", wd.device, 0) EXCEPT !.mask = sf.unknown])
                           ELSE errs
    /\ Exit("main:return", IF rc = 0 THEN EXIT_SUCCESS ELSE EXIT_FAILURE)
    /\ UNCHANGED << cmdline, session, options >>

(* ---------------------------- specification --------------------------- *)

Next ==
    \/ OptDevice \/ OptOutput \/ OptFlags \/ OptVersion \/ OptHelp
    \/ OptNoflags \/ OptNoident \/ OptNotimeouts
    \/ OptNoheadings \/ OptRaw \/ OptPairs \/ OptUnknown
    \/ EndOfOptions
    \/ BlockSignals \/ Open
    \/ GetSupport \/ GetStatus \/ GetBootStatus
    \/ GetTimeout \/ GetPretimeout \/ GetTimeleft
    \/ Disarm \/ Close \/ RestoreSignals
    \/ Render

Spec == Init /\ [][Next]_vars

\* The process keeps running, and an interrupted write does not recur for
\* ever; checked for the command lines of at most one word.
FairInit == Init /\ Len(args) <= 1

FairSpec == FairInit /\ [][Next]_vars /\ WF_vars(Next)

TypeOK ==
    /\ pc \in { "getopt", "read_watchdog", "open", "write", "close", "restore",
                "render", "exit" } \cup Requests
    /\ fd \in { "none", "open", "closed" }
    /\ sigmask \in { "orig", "blocked" }
    /\ wres \in { "none", "ok", "eintr", "err" }
    /\ exitcode \in { -1, EXIT_SUCCESS, EXIT_FAILURE }
    /\ (pc = "exit") = (exitcode # -1)

(* The rendering tail of main on its own, from every state the session of  *)
(* a run without usage error can leave behind for a driver that reports    *)
(* any of the capability bits of RenderBits, with any filter made of the   *)
(* flags of RenderFilterFlags.                                             *)

RenderBits == WDIOF_OVERHEAT \cup WDIOF_CARDRESET \cup WDIOF_MAGICCLOSE \cup WDIOF_PRETIMEOUT
              \cup WDIOF_ALARMONLY \cup WDIOF_KEEPALIVEPING \cup {31}

RenderFilterFlags == { WDIOF_FANFAULT, WDIOF_MAGICCLOSE, WDIOF_PRETIMEOUT, WDIOF_KEEPALIVEPING }

RenderInit ==
    /\ args = << >>
    /\ positional = FALSE
    /\ usage = {}
    /\ pc = "render"
    /\ exitat = "none"
    /\ exitcode = -1
    /\ \E o \in SUBSET RenderBits :
         wd = [device |-> _PATH_WATCHDOG_DEV,
               timeout |-> 30, timeleft |-> 0, pretimeout |-> 0,
               status |-> WDIOF_KEEPALIVEPING, bstatus |-> {},
               ident |-> [options |-> o, firmware_version |-> 18, identity |-> "WD1"],
               has_timeout |-> TRUE, has_timeleft |-> FALSE, has_pretimeout |-> FALSE]
    /\ columns = << COL_FLAG, COL_DESC, COL_STATUS, COL_BSTATUS >>
    /\ ncolumns = 4
    /\ noflags \in BOOLEAN
    /\ noident = FALSE /\ notimeouts = FALSE
    /\ tt_flags = {}
    /\ wanted \in { UNION S : S \in SUBSET RenderFilterFlags }
    /\ ~FlagsConflict(wanted, noflags)
    /\ seen = (IF wanted # {} THEN { "f" } ELSE {}) \cup (IF noflags THEN { "F" } ELSE {})
    /\ rc = 0
    /\ fd = "closed"
    /\ sigmask = "orig"
    /\ ioctls = [r \in Requests |->
                   IF r \in { "WDIOC_GETPRETIMEOUT", "WDIOC_GETTIMELEFT" } THEN "fail" ELSE "ok"]
    /\ wres = "ok"
    /\ interrupted = FALSE
    /\ out = << >>
    /\ tt = NoTable
    /\ errs = << >>

RenderSpec == RenderInit /\ [][Render]_vars

(* ------------------------------- claims ------------------------------- *)

\* the device session has been entered (read_watchdog has been called)
InSession ==
    \/ pc \notin { "getopt", "exit" }
    \/ exitat \in { "open:errx", "open:err", "main:return" }

\* main has run to its last statement
Rendered == pc = "exit" /\ exitat = "main:return"

\* the exits main takes on an argument error, and on a failed open
ArgErrorExits == { "o:return", "f:return", "?:usage", "conflict:errx", "positional:usage" }
OpenFailExits == { "open:errx", "open:err" }

Printed(m) == \E i \in 1..Len(out) : out[i].msg = m
Warned(m) == \E i \in 1..Len(errs) : errs[i].msg = m

\* the bits of the 11 entries of wdflags[]
KnownFlagBits == UNION { wdflags[i].flag : i \in 1..Len(wdflags) }

\* C1: whenever the device handle has been closed, a disarm write has been
\* attempted on it before (it ended "ok" or "err"), the write comes after
\* the last query, also when the capability query failed, and a process
\* that had opened the device never ends with the handle still open.
C1_DisarmBeforeClose ==
    /\ fd = "closed" => wres \in { "ok", "err" }
    /\ wres # "none" => pc \in { "write", "close", "restore", "render", "exit" }
    /\ pc \in { "restore", "render" } => fd = "closed"
    /\ pc = "exit" /\ fd # "none" => fd = "closed" /\ wres \in { "ok", "err" }

\* C1 witness: the capability query failed, the write was attempted and
\* the handle is closed
C1_Witness ==
    /\ fd = "closed"
    /\ ioctls["WDIOC_GETSUPPORT"] = "fail"
    /\ wres = "ok"

\* C2: all signals are blocked whenever the device is being opened or is
\* open (through the queries, the disarm write and the close), and the
\* mask the process started with is back whenever read_watchdog has
\* returned, whatever failed in the session.
C2_MaskBracketsSession ==
    /\ pc = "open" \/ fd = "open" => sigmask = "blocked"
    /\ pc \in Requests \cup { "write", "close" } => sigmask = "blocked"
    /\ pc = "render" \/ Rendered => sigmask = "orig" /\ fd = "closed"

\* C2 witness: read_watchdog has returned after a failed capability query
\* and a failed disarm write
C2_Witness ==
    /\ pc = "render"
    /\ sigmask = "orig"
    /\ ioctls["WDIOC_GETSUPPORT"] = "fail"
    /\ wres = "err"

\* C3: the disarm loop is at the write only while no attempt has ended
\* "ok" or with an error other than EINTR; it takes another turn only after
\* an attempt that ended with EINTR; an attempt that fails with another
\* error leaves the loop with the warning; once left, the loop is not
\* entered again; and (interruptions not recurring for ever) a session
\* that reaches the loop, also after a failed capability query, goes on to
\* close the handle and returns to main, which ends.
C3_DisarmLoop ==
    /\ [](pc = "write" => wres \in { "none", "eintr" })
    /\ [][(pc = "write" /\ pc' = "write") => wres' = "eintr"]_vars
    /\ [](wres = "err" => pc # "write" /\ Warned("failed to disarm watchdog"))
    /\ [](Warned("failed to disarm watchdog") => wres = "err")
    /\ [][(pc \in { "close", "restore", "render", "exit" }) => pc' # "write"]_vars
    /\ (pc = "write" ~> (Rendered /\ fd = "closed" /\ wres \in { "ok", "err" }))

\* C3 witness: a write was interrupted, was issued again and succeeded,
\* after a failed capability query, and the handle is closed
C3_Witness ==
    /\ interrupted
    /\ wres = "ok"
    /\ fd = "closed"
    /\ ioctls["WDIOC_GETSUPPORT"] = "fail"

\* C4 (as claimed): when the command line contains a usage error (an
\* unknown option, an unknown column or flag name, a non-option argument,
\* or both -f and -F), the device is never opened and the process ends
\* with a non-zero status.
C4_UsageErrorBeforeDeviceIO ==
    usage # {} =>
        /\ ~InSession
        /\ fd = "none"
        /\ pc = "exit" => exitcode # EXIT_SUCCESS

\* C4 (amended): when the command line contains a usage error, the device
\* is never opened, and the process ends on an argument error with a
\* non-zero status unless getopt comes to a -V or -h of the command line
\* first, where it ends with status 0.
C4_UsageErrorOrHelpBeforeDeviceIO ==
    usage # {} =>
        /\ ~InSession
        /\ fd = "none"
        /\ pc = "exit" =>
               IF exitat \in { "V:return", "h:usage" }
               THEN exitcode = EXIT_SUCCESS /\ seen \cap { "V", "h" } # {}
               ELSE exitcode # EXIT_SUCCESS /\ exitat \in ArgErrorExits

\* C4 witness: the command line has -f and -F and nothing else wrong, and
\* the process has ended on the conflict
C4_Witness ==
    /\ usage = { "conflict" }
    /\ pc = "exit"
    /\ exitat = "conflict:errx"
    /\ exitcode = EXIT_FAILURE
    /\ fd = "none"

SelectedFlags(opts, wnt) ==
    LET Sel(fl) == fl.flag \subseteq opts /\ (wnt = {} \/ fl.flag \subseteq wnt)
    IN  SelectSeq(wdflags, Sel)

\* C6: the table show_flags prints has exactly one row for each known flag
\* that is set in the supported-options mask and, when a filter is given,
\* in the filter, and no other row, in the order of wdflags[].
C6_FlagRows ==
    tt.printed =>
        LET sel == SelectedFlags(wd.ident.options, wanted)
        IN  /\ Len(tt.rows) = Len(sel)
            /\ \A i \in 1..Len(sel) : tt.rows[i].of = sel[i].name

\* C6 witness: a table was printed under a filter that left some but not
\* all of the supported known flags
C6_Witness ==
    /\ tt.printed
    /\ wanted # {}
    /\ Len(tt.rows) >= 1
    /\ Len(tt.rows) < Len(SelectedFlags(wd.ident.options, {}))

\* the "unknown flags" warnings on stderr
UnknownFlagsWarnings == SelectSeq(errs, LAMBDA m : m.msg = "unknown flags")

\* C7 (as claimed): in every run that ends after the session, the warning
\* naming the device and the reported bits that are no known flag is on
\* stderr exactly when there are such bits.
C7_UnknownBitsAlwaysWarned ==
    Rendered =>
        LET residual == wd.ident.options \ KnownFlagBits
        IN  (residual # {}) = (UnknownFlagsWarnings # << >>)

\* C7 (amended): in every run that ends after the session and shows the
\* flag table (no -F), there is one warning, naming the device and exactly
\* the reported bits minus the 11 known flag bits, whatever the filter,
\* when there are such bits, and none when there are none; when the flags
\* are suppressed (-F) there is no such warning.
C7_UnknownBitsWarnedWithTable ==
    Rendered =>
        LET residual == wd.ident.options \ KnownFlagBits
        IN  IF ~noflags /\ residual # {}
            THEN /\ Len(UnknownFlagsWarnings) = 1
                 /\ UnknownFlagsWarnings[1].dev = wd.device
                 /\ UnknownFlagsWarnings[1].mask = residual
            ELSE UnknownFlagsWarnings = << >>

\* C7 witness: under a filter, unknown bits were reported and warned about
C7_Witness ==
    /\ Rendered
    /\ wanted # {}
    /\ wd.ident.options \ KnownFlagBits # {}
    /\ wd.ident.options \cap KnownFlagBits # {}
    /\ UnknownFlagsWarnings # << >>

\* a timing line with label m is printed exactly when has is set and the
\* timeouts are not suppressed, and it shows the value v
TimingLine(m, has, v) ==
    /\ Printed(m) = (has /\ ~notimeouts)
    /\ \A i \in 1..Len(out) : out[i].msg = m => out[i].val = v

\* C8: each presence flag is set exactly when its own query was issued and
\* succeeded, and at the end of main a timing line is printed exactly when
\* its presence flag is set and timeouts are not suppressed.
C8_TimingValues ==
    /\ wd.has_timeout = (ioctls["WDIOC_GETTIMEOUT"] = "ok")
    /\ wd.has_pretimeout = (ioctls["WDIOC_GETPRETIMEOUT"] = "ok")
    /\ wd.has_timeleft = (ioctls["WDIOC_GETTIMELEFT"] = "ok")
    /\ Rendered =>
           /\ TimingLine("Timeout:", wd.has_timeout, wd.timeout)
           /\ TimingLine("Pre-timeout:", wd.has_pretimeout, wd.pretimeout)
           /\ TimingLine("Timeleft:", wd.has_timeleft, wd.timeleft)

\* C8 witness: the pretimeout query failed between two that succeeded, one
\* of them with the value 0; two lines are printed
C8_Witness ==
    /\ Rendered
    /\ ioctls["WDIOC_GETTIMEOUT"] = "ok" /\ wd.timeout = 0
    /\ ioctls["WDIOC_GETPRETIMEOUT"] = "fail"
    /\ ioctls["WDIOC_GETTIMELEFT"] = "ok"
    /\ Printed("Timeout:") /\ ~Printed("Pre-timeout:") /\ Printed("Timeleft:")

C10_SeparatorIffBothPrinted ==
    Rendered =>
        Printed("") =
            /\ Printed("Identity:") \/ Printed("Timeout:")
                 \/ Printed("Pre-timeout:") \/ Printed("Timeleft:")
            /\ tt.printed

====
